---- MODULE Spec2Model ----
(***************************************************************************)
(* Backend connectivity monitor of workout-tracker-kiro.                   *)
(*                                                                         *)
(*   HealthCheckService  (src/unnamed/part_009, lines 128-274)             *)
(*   ConnectivityStatus  (src/app/web/src/components/Layout.jsx, 55-248)   *)
(*                                                                         *)
(* Time is counted in units of 1000 ms.  One action is one browser task:   *)
(* the handler that runs plus the promise reactions (microtasks) it        *)
(* queues, which the event loop drains before the next task.               *)
(***************************************************************************)
EXTENDS Integers, Sequences, FiniteSets, TLC

VARIABLES
    now,                \* wall clock, in units of 1000 ms
    lifecycle,          \* "rendered" | "mounted" | "unmounted" | "service" | "shared"
    props,              \* ConnectivityStatus props
    status,             \* useState("checking")
    lastChecked,        \* useState(null): << >> is null, <<t>> a Date
    intervalRef,        \* 0 is null, else the id of a setInterval timer
    healthServiceRef,   \* << >> is null, else <<service>>
    mountedRef,
    checkInProgressRef,
    currentRequestRef,  \* 0 is null, else the id of an AbortController
    intervals,          \* the armed setInterval timers of the window
    calls,              \* the checkHealth invocations that have not settled
    started,            \* number of checkHealth invocations so far
    lastSettled,        \* << >>, or <<the invocation that settled in the task just run>>
    abortedSignals,     \* ids of the aborted AbortControllers that are still referenced
    timerIds,           \* number of setInterval timers created so far
    ticksFired,         \* history: interval callbacks run
    ticksSkipped,       \* history: interval callbacks that found a check in progress
    rerenders,          \* history: re-renders with changed props
    strictMode,         \* history: the mount ran under React.StrictMode (dev build)
    updates,            \* history: number of setStatus calls
    earlyAborts         \* history: cycles that found a leftover controller to abort

vars == << now, lifecycle, props, status, lastChecked, intervalRef, healthServiceRef,
           mountedRef, checkInProgressRef, currentRequestRef, intervals, calls,
           started, lastSettled, abortedSignals, timerIds, ticksFired, ticksSkipped,
           rerenders, strictMode, updates, earlyAborts >>

(***************************************************************************)
(* Bounds of the model                                                     *)
(***************************************************************************)
MaxTime == 7            \* the clock stops here
MaxCalls == 3           \* checkHealth invocations per behaviour
MaxRerenders == 1       \* re-renders with changed props per behaviour

(***************************************************************************)
(* Program constants (times in units of 1000 ms)                           *)
(***************************************************************************)
DefaultTimeout == 5
DefaultMaxRetries == 3
DefaultBaseDelay == 1
DefaultCheckInterval == 30
DefaultEndpoint == "/api/health"

\* Inputs: the values a caller may pass.
CheckIntervals == {2, 3}
Timeouts == {2}
Endpoints == {"/healthz"}
Absent == << >>

\* Mutant: the backoff grows by one base delay per attempt.
Pow2Linear(n) == n + 1

\* Math.pow(2, n)
RECURSIVE Pow2(_)
Pow2(n) == IF n = 0 THEN 1 ELSE 2 * Pow2(n - 1)

\* JavaScript's a || b on an option that is undefined (Absent) or a number.
OrDefault(opt, default) == IF opt = Absent \/ opt[1] = 0 THEN default ELSE opt[1]

(***************************************************************************)
(* HealthCheckService                                                      *)
(***************************************************************************)

\* constructor(options): every option goes through `options.x || default`.
HealthCheckService(options) ==
    [ timeout    |-> OrDefault(options.timeout, DefaultTimeout),
      maxRetries |-> OrDefault(options.maxRetries, DefaultMaxRetries),
      baseDelay  |-> OrDefault(options.baseDelay, DefaultBaseDelay),
      endpoint   |-> IF options.endpoint = Absent THEN DefaultEndpoint
                     ELSE options.endpoint[1],
      given      |-> options ]        \* history: the options object

\* The Error objects checkHealth can end with, by message.
ErrAborted == "Health check was aborted"
ErrDelayAborted == "Delay was aborted"
ErrTimeout == "Health check timed out"
ErrNetwork == "Network error: Unable to reach health check endpoint"
ErrHttp == "Health check failed with status"
ErrHttpAbortedText == "Health check failed with status: aborted"
ErrInvalidFormat == "Invalid health check response format"
NoError == "none"

\* error.message.includes("aborted").  The HTTP error's message ends with the
\* server's statusText, which may hold the word.
MessageIncludesAborted(e) == e \in {ErrAborted, ErrDelayAborted, ErrHttpAbortedText}

\* What fetch() and the body checks throw, before the catch block rewrites it.
RawErrors == {"AbortError", "TypeError: fetch", ErrHttp, ErrHttpAbortedText, ErrInvalidFormat}

\* The catch block of _performHealthCheck.
ClassifyError(raw) ==
    IF raw = "AbortError" THEN ErrTimeout
    ELSE IF raw = "TypeError: fetch" THEN ErrNetwork
    ELSE raw

NoData == [status |-> "none", timestamp |-> << >>, message |-> "none"]
NotValidJsonMessage == "Health check successful but response was not valid JSON"

\* The object built when response.json() throws.
SyntheticData(t) == [status |-> "ok", timestamp |-> <<t>>, message |-> NotValidJsonMessage]

\* The JSON objects the server may send with a 2xx status.
Bodies(t) == [status : {"ok", "error", "missing"}, timestamp : {<< >>, <<t>>}, message : {"none"}]

\* Mutant: the validation forgets the timestamp.
InvalidStructureStatusOnly(data) == data.status = "missing"

\* !data.status || !data.timestamp
InvalidStructure(data) == data.status = "missing" \/ data.timestamp = << >>

\* A checkHealth invocation whose first statement has not run yet.
NewCall(id, svc, owner) ==
    [ id |-> id, owner |-> owner, svc |-> svc,
      pc |-> "start", attempt |-> 0, fetches |-> 0,
      timeoutAt |-> 0, delayAt |-> 0,
      lastError |-> NoError,
      result |-> "none", error |-> NoError, data |-> NoData,
      attemptError |-> NoError,      \* history: what the latest attempt threw, if it did
      abortedIn |-> "none",          \* history: where the signal's abort found it
      settledAt |-> 0,               \* history: when the promise settled
      bodyFailed |-> FALSE,          \* history: response.json() threw
      onlyInvalid |-> TRUE,          \* history: no attempt failed but on a body
                                     \*          without status or timestamp
      waits |-> 0,                   \* history: number of _delay calls
      calledAt |-> 0,                \* history, kept for a direct caller: when
                                     \*          checkHealth was called
      issuedAt |-> 0,                \* history, kept for a direct caller: when the
                                     \*          attempt under way was issued
      instant |-> TRUE,              \* history, kept for a direct caller: every
                                     \*          attempt threw when it was issued
      body |-> NoData,               \* history: what response.json() resolved with
                                     \*          in the attempt under way
      stopped |-> FALSE,             \* history: mountedRef was false at the resume
      wrote |-> FALSE ]              \* history: the resume called setStatus

\* return response: the promise resolves, its reactions are queued.
Resolve(c, data) ==
    [c EXCEPT !.pc = "settling", !.result = "resolved", !.data = data]

\* throw: the promise rejects, its reactions are queued.
Reject(c, e) ==
    [c EXCEPT !.pc = "settling", !.result = "rejected", !.error = e]

\* _performHealthCheck up to its await: setTimeout(abort, timeout), then fetch().
IssueAttempt(c, t) ==
    [c EXCEPT !.pc = "fetch", !.fetches = @ + 1,
              !.timeoutAt = t + c.svc.timeout,
              !.attemptError = NoError,
              !.issuedAt = IF c.owner = "caller" THEN t ELSE 0]

\* Mutant: the loop does not look at the signal.
LoopHeadIgnoringSignal(c, aborted, t) ==
    IF c.attempt > c.svc.maxRetries THEN Reject(c, c.lastError)
    ELSE IssueAttempt(c, t)

\* The head of checkHealth's loop: the bound, then the signal check.
LoopHead(c, aborted, t) ==
    IF c.attempt > c.svc.maxRetries THEN Reject(c, c.lastError)
    ELSE IF aborted THEN Reject(c, ErrAborted)
    ELSE IssueAttempt(c, t)

\* checkHealth's catch block, entered with the error _performHealthCheck threw.
AttemptFailed(c, e, aborted, t) ==
    LET c1 == [c EXCEPT !.lastError = e, !.attemptError = e, !.timeoutAt = 0,
                        !.onlyInvalid = @ /\ e = ErrInvalidFormat,
                        !.instant = @ /\ (c.owner = "caller" => t = c.issuedAt),
                        !.issuedAt = 0,
                        !.body = NoData] IN
    IF aborted \/ MessageIncludesAborted(e) THEN Reject(c1, e)
    ELSE IF c1.attempt = c1.svc.maxRetries THEN Reject(c1, c1.lastError)
    ELSE [c1 EXCEPT !.pc = "delay", !.waits = @ + 1,
                    !.delayAt = t + c1.svc.baseDelay * Pow2(c1.attempt)]

\* _delay's timer fired: attempt++ and the loop goes round.
DelayElapsed(c, aborted, t) ==
    LoopHead([c EXCEPT !.attempt = @ + 1, !.delayAt = 0], aborted, t)

\* fetch() rejected, or resolved with a response that is not ok.
FetchFailed(c, raw, aborted, t) == AttemptFailed(c, ClassifyError(raw), aborted, t)

\* Mutant: the timer of the attempt is left armed when the headers arrive.
FetchOkKeepsTimer(c) == [c EXCEPT !.pc = "body"]

\* fetch() resolved with a 2xx response: clearTimeout, then await response.json().
FetchOk(c) == [c EXCEPT !.pc = "body", !.timeoutAt = 0]

\* response.json() resolved with data.
BodyParsed(c, data, aborted, t) ==
    IF InvalidStructure(data)
    THEN AttemptFailed(c, ClassifyError(ErrInvalidFormat), aborted, t)
    ELSE Resolve(c, data)

\* Mutant: the body is returned with its status overwritten.
JsonParsedNormalised(c, data, aborted, t) ==
    BodyParsed([c EXCEPT !.body = data], [data EXCEPT !.status = "ok"], aborted, t)

\* response.json() resolved with what the server sent.
JsonParsed(c, data, aborted, t) == BodyParsed([c EXCEPT !.body = data], data, aborted, t)

\* Mutant: a body that is no JSON fails the attempt.
BodyFailedIsFailure(c, aborted, t) ==
    AttemptFailed([c EXCEPT !.bodyFailed = TRUE], ErrInvalidFormat, aborted, t)

\* response.json() threw: whatever it threw is swallowed.
BodyFailed(c, aborted, t) ==
    BodyParsed([c EXCEPT !.bodyFailed = TRUE], SyntheticData(t), aborted, t)

\* Mutant: _delay does not listen to the signal; the loop sees the abort when
\* the delay is over.
SignalAbortedDelayWaits(c, t) ==
    LET c1 == [c EXCEPT !.abortedIn = c.pc] IN
    CASE c.pc = "fetch" -> FetchFailed(c1, "AbortError", TRUE, t)
      [] c.pc = "body"  -> BodyFailed(c1, TRUE, t)
      [] OTHER          -> c1

\* The listeners of the external signal run: the attempt's controller aborts,
\* so a pending fetch() or json() rejects with an AbortError; _delay's listener
\* clears its timer and rejects.
SignalAborted(c, t) ==
    LET c1 == [c EXCEPT !.abortedIn = c.pc] IN
    CASE c.pc = "fetch" -> FetchFailed(c1, "AbortError", TRUE, t)
      [] c.pc = "body"  -> BodyFailed(c1, TRUE, t)
      [] c.pc = "delay" -> Reject([c1 EXCEPT !.delayAt = 0], ErrDelayAborted)
      [] OTHER          -> c1

(***************************************************************************)
(* ConnectivityStatus                                                      *)
(*                                                                         *)
(* The handlers are functions from state to state, so that one task can    *)
(* run several of them in the order React and the event loop do.           *)
(***************************************************************************)
St ==
    [ now |-> now, lifecycle |-> lifecycle, props |-> props, status |-> status,
      lastChecked |-> lastChecked, intervalRef |-> intervalRef,
      healthServiceRef |-> healthServiceRef, mountedRef |-> mountedRef,
      checkInProgressRef |-> checkInProgressRef,
      currentRequestRef |-> currentRequestRef, intervals |-> intervals,
      calls |-> calls, started |-> started, lastSettled |-> << >>,
      abortedSignals |-> abortedSignals, timerIds |-> timerIds,
      ticksFired |-> ticksFired, ticksSkipped |-> ticksSkipped,
      rerenders |-> rerenders, strictMode |-> strictMode, updates |-> updates,
      earlyAborts |-> earlyAborts ]

Commit(s) ==
    /\ now' = s.now
    /\ lifecycle' = s.lifecycle
    /\ props' = s.props
    /\ status' = s.status
    /\ lastChecked' = s.lastChecked
    /\ intervalRef' = s.intervalRef
    /\ healthServiceRef' = s.healthServiceRef
    /\ mountedRef' = s.mountedRef
    /\ checkInProgressRef' = s.checkInProgressRef
    /\ currentRequestRef' = s.currentRequestRef
    /\ intervals' = s.intervals
    /\ calls' = s.calls
    /\ started' = s.started
    /\ lastSettled' = s.lastSettled
    /\ abortedSignals' = {i \in s.abortedSignals :
                              i \in DOMAIN s.calls \/ i = s.currentRequestRef}
    /\ timerIds' = s.timerIds
    /\ ticksFired' = s.ticksFired
    /\ ticksSkipped' = s.ticksSkipped
    /\ rerenders' = s.rerenders
    /\ strictMode' = s.strictMode
    /\ updates' = s.updates
    /\ earlyAborts' = s.earlyAborts

\* The function calls without the entry of id.
Without(f, id) == [i \in DOMAIN f \ {id} |-> f[i]]

\* The function calls with id mapped to c.
With(f, id, c) == [i \in DOMAIN f \cup {id} |-> IF i = id THEN c ELSE f[i]]

\* Mutant: the abort reaches every invocation that has not settled.
AbortEverything(s, id) ==
    IF id \in s.abortedSignals THEN s
    ELSE [s EXCEPT !.abortedSignals = @ \cup {id},
                   !.calls = [i \in DOMAIN s.calls |-> SignalAborted(s.calls[i], s.now)]]

\* AbortController.abort() on controller id: a second abort does nothing; the
\* first one runs the signal's listeners.
Abort(s, id) ==
    IF id \in s.abortedSignals THEN s
    ELSE LET s1 == [s EXCEPT !.abortedSignals = @ \cup {id}] IN
         IF id \in DOMAIN s.calls
         THEN [s1 EXCEPT !.calls[id] = SignalAborted(s.calls[id], s.now)]
         ELSE s1

\* service.checkHealth(signal) up to its first await.
CheckHealth(s, svc, owner) ==
    LET id == s.started + 1
        pre == id \in s.abortedSignals
        c0 == [NewCall(id, svc, owner) EXCEPT !.calledAt = IF owner = "caller" THEN s.now ELSE 0,
                                              !.abortedIn = IF pre THEN "before" ELSE "none"]
        c == LoopHead(c0, pre, s.now)
    IN [s EXCEPT !.started = id, !.calls = With(s.calls, id, c)]

\* setStatus(v)
SetStatus(s, v) == [s EXCEPT !.status = v, !.updates = @ + 1]

\* Mutant: no debounce.
ReturnsEarlyNoDebounce(s) ==
    \/ s.healthServiceRef = << >>
    \/ ~s.mountedRef

\* The two early returns of performHealthCheck.
ReturnsEarly(s) ==
    \/ s.healthServiceRef = << >>
    \/ ~s.mountedRef
    \/ s.checkInProgressRef

\* performHealthCheck from its first line to `await checkHealth(...)`.
\* The new AbortController takes the id of the invocation it is made for.
PerformHealthCheck(s) ==
    IF ReturnsEarly(s) THEN s
    ELSE LET s1 == IF s.currentRequestRef # 0
                   THEN [Abort(s, s.currentRequestRef) EXCEPT !.earlyAborts = 1]
                   ELSE s
             s2 == [s1 EXCEPT !.currentRequestRef = s.started + 1,
                              !.checkInProgressRef = TRUE]
             s3 == SetStatus(s2, "checking")
         IN CheckHealth(s3, s3.healthServiceRef[1], "monitor")

\* Mutant: the guard forgets mountedRef.
DiscardedIgnoringMount(s) ==
    s.currentRequestRef # 0 /\ s.currentRequestRef \in s.abortedSignals

\* The guard written twice in performHealthCheck, after the await.
Discarded(s) ==
    \/ ~s.mountedRef
    \/ (s.currentRequestRef # 0 /\ s.currentRequestRef \in s.abortedSignals)

\* Mutant: the finally block clears the flag and keeps the controller.
FinallyKeepsController(s) ==
    IF s.mountedRef THEN [s EXCEPT !.checkInProgressRef = FALSE] ELSE s

\* Mutant: a cycle that ends after a skipped tick starts the check the tick
\* would have started.
FinallyCatchesUp(s) ==
    LET s1 == IF s.mountedRef
              THEN [s EXCEPT !.checkInProgressRef = FALSE, !.currentRequestRef = 0]
              ELSE s
    IN IF s1.ticksSkipped > 0 THEN PerformHealthCheck(s1) ELSE s1

\* The finally block of performHealthCheck.
Finally(s) ==
    IF s.mountedRef
    THEN [s EXCEPT !.checkInProgressRef = FALSE, !.currentRequestRef = 0]
    ELSE s

\* Mutant: every resolved invocation counts as healthy.
ResumeIgnoringStatus(s, c) ==
    LET v == IF c.result = "resolved" THEN "healthy" ELSE "unhealthy"
        s1 == [s EXCEPT !.lastSettled[1].stopped = ~s.mountedRef]
        s2 == IF Discarded(s1) THEN s1
              ELSE [SetStatus(s1, v) EXCEPT !.lastChecked = <<s.now>>,
                                            !.lastSettled[1].wrote = TRUE]
    IN Finally(s2)

\* Mutant: the resume does not call setLastChecked.
ResumeWithoutLastChecked(s, c) ==
    LET v == IF c.result = "resolved" /\ c.data.status = "ok"
             THEN "healthy" ELSE "unhealthy"
        s1 == [s EXCEPT !.lastSettled[1].stopped = ~s.mountedRef]
        s2 == IF Discarded(s1) THEN s1
              ELSE [SetStatus(s1, v) EXCEPT !.lastSettled[1].wrote = TRUE]
    IN Finally(s2)

\* performHealthCheck from the await on, for the invocation c that settled.
Resume(s, c) ==
    LET v == IF c.result = "resolved" /\ c.data.status = "ok"
             THEN "healthy" ELSE "unhealthy"
        s1 == [s EXCEPT !.lastSettled[1].stopped = ~s.mountedRef]
        s2 == IF Discarded(s1) THEN s1
              ELSE [SetStatus(s1, v) EXCEPT !.lastChecked = <<s.now>>,
                                            !.lastSettled[1].wrote = TRUE]
    IN Finally(s2)

Settling(s) == {i \in DOMAIN s.calls : s.calls[i].pc = "settling"}

Least(S) == CHOOSE i \in S : \A j \in S : i <= j

\* The microtask queue is drained: every settled promise resumes its awaiter.
RECURSIVE Microtasks(_)
Microtasks(s) ==
    IF Settling(s) = {} THEN s
    ELSE LET i == Least(Settling(s))
             c == [s.calls[i] EXCEPT !.pc = "done", !.settledAt = s.now]
             s1 == [s EXCEPT !.calls = Without(s.calls, i), !.lastSettled = <<c>>]
         IN Microtasks(IF c.owner = "monitor" THEN Resume(s1, c) ELSE s1)

\* Props after the defaults of the parameter list are applied.
Destructure(given) ==
    [ checkInterval  |-> IF given.checkInterval = Absent THEN DefaultCheckInterval
                         ELSE given.checkInterval[1],
      timeout        |-> IF given.timeout = Absent THEN DefaultTimeout
                         ELSE given.timeout[1],
      healthEndpoint |-> IF given.healthEndpoint = Absent THEN DefaultEndpoint
                         ELSE given.healthEndpoint[1] ]

\* The service effect.
ServiceEffect(s) ==
    [s EXCEPT !.healthServiceRef =
        << HealthCheckService([ timeout    |-> <<s.props.timeout>>,
                                endpoint   |-> <<s.props.healthEndpoint>>,
                                maxRetries |-> Absent,
                                baseDelay  |-> Absent ]) >>]

\* Mutant: the cleanup leaves mountedRef alone.
ServiceCleanupKeepsMounted(s) ==
    LET s2 == IF s.currentRequestRef # 0
              THEN [Abort(s, s.currentRequestRef) EXCEPT !.currentRequestRef = 0]
              ELSE s
    IN [s2 EXCEPT !.checkInProgressRef = FALSE]

\* The cleanup of the service effect.
ServiceCleanup(s) ==
    LET s1 == [s EXCEPT !.mountedRef = FALSE]
        s2 == IF s1.currentRequestRef # 0
              THEN [Abort(s1, s1.currentRequestRef) EXCEPT !.currentRequestRef = 0]
              ELSE s1
    IN [s2 EXCEPT !.checkInProgressRef = FALSE]

\* The polling effect: the immediate check, then setInterval.
PollingEffect(s) ==
    LET s1 == PerformHealthCheck(s)
        id == s1.timerIds + 1
    IN [s1 EXCEPT !.timerIds = id, !.intervalRef = id,
                  !.intervals = @ \cup {[ id |-> id,
                                          next |-> s.now + s.props.checkInterval,
                                          period |-> s.props.checkInterval ]}]

\* window.clearInterval(id)
ClearInterval(s, id) == [s EXCEPT !.intervals = {t \in @ : t.id # id}]

\* Mutant: the cleanup leaves the interval armed.
PollingCleanupKeepsTimer(s) ==
    LET s2 == IF s.currentRequestRef # 0
              THEN [Abort(s, s.currentRequestRef) EXCEPT !.currentRequestRef = 0]
              ELSE s
    IN [s2 EXCEPT !.checkInProgressRef = FALSE]

\* The cleanup of the polling effect.
PollingCleanup(s) ==
    LET s1 == IF s.intervalRef # 0
              THEN [ClearInterval(s, s.intervalRef) EXCEPT !.intervalRef = 0]
              ELSE s
        s2 == IF s1.currentRequestRef # 0
              THEN [Abort(s1, s1.currentRequestRef) EXCEPT !.currentRequestRef = 0]
              ELSE s1
    IN [s2 EXCEPT !.checkInProgressRef = FALSE]

(***************************************************************************)
(* Initial states                                                          *)
(***************************************************************************)
\* What <ConnectivityStatus .../> may be given: nothing (as Layout does), or
\* any of an interval, a timeout and an endpoint.
GivenProps ==
    [ checkInterval : {Absent} \cup {<<i>> : i \in CheckIntervals},
      timeout : {Absent} \cup {<<x>> : x \in Timeouts},
      healthEndpoint : {Absent} \cup {<<e>> : e \in Endpoints} ]

\* The props of the first render.
FirstProps ==
    {g \in GivenProps : /\ g.healthEndpoint = Absent
                        /\ (g.checkInterval = Absent <=> g.timeout = Absent)}

\* The props a re-render may bring after props p: another interval, another
\* timeout, both, or another endpoint.
NextProps(p) ==
    {q \in {Destructure(g) : g \in GivenProps} :
        /\ q # p
        /\ q.checkInterval \in CheckIntervals \cup {p.checkInterval}
        /\ q.healthEndpoint # p.healthEndpoint
              => (q.timeout = p.timeout /\ q.checkInterval = p.checkInterval)}

\* The component after its first render, before its effects run.
InitWith(p, service) ==
    /\ now = 0
    /\ props = p
    /\ status = "checking"
    /\ lastChecked = << >>
    /\ intervalRef = 0
    /\ healthServiceRef = service
    /\ mountedRef = TRUE
    /\ checkInProgressRef = FALSE
    /\ currentRequestRef = 0
    /\ intervals = {}
    /\ calls = << >>
    /\ started = 0
    /\ lastSettled = << >>
    /\ abortedSignals = {}
    /\ timerIds = 0
    /\ ticksFired = 0
    /\ ticksSkipped = 0
    /\ rerenders = 0
    /\ strictMode = FALSE
    /\ updates = 0
    /\ earlyAborts = 0

Init ==
    /\ lifecycle = "rendered"
    /\ \E g \in FirstProps : InitWith(Destructure(g), << >>)

(***************************************************************************)
(* Tasks of the component                                                  *)
(***************************************************************************)
\* The effects of the first commit.  Under React.StrictMode a development
\* build then runs every cleanup and every effect once more.
Mount(strict) ==
    /\ lifecycle = "rendered"
    /\ LET s1 == PollingEffect(ServiceEffect(St))
           s2 == IF strict
                 THEN PollingEffect(ServiceEffect(PollingCleanup(ServiceCleanup(s1))))
                 ELSE s1
       IN Commit(Microtasks([s2 EXCEPT !.lifecycle = "mounted", !.strictMode = strict]))

\* A re-render with other props: the cleanups of the effects whose
\* dependencies changed run, then those effects.
Rerender(p) ==
    /\ lifecycle = "mounted"
    /\ rerenders < MaxRerenders
    /\ p \in NextProps(props)
    /\ LET service == p.timeout # props.timeout \/ p.healthEndpoint # props.healthEndpoint
           polling == p.checkInterval # props.checkInterval
           s0 == [St EXCEPT !.props = p, !.rerenders = @ + 1]
           s1 == IF service THEN ServiceCleanup(s0) ELSE s0
           s2 == IF polling THEN PollingCleanup(s1) ELSE s1
           s3 == IF service THEN ServiceEffect(s2) ELSE s2
           s4 == IF polling THEN PollingEffect(s3) ELSE s3
       IN /\ s4.started <= MaxCalls
          /\ Commit(Microtasks(s4))

\* The component is removed: both cleanups run.
Unmount ==
    /\ lifecycle = "mounted"
    /\ Commit(Microtasks(PollingCleanup(ServiceCleanup([St EXCEPT !.lifecycle = "unmounted"]))))

\* An armed interval timer comes due and calls performHealthCheck.
Tick(t) ==
    /\ t \in intervals
    /\ t.next = now
    /\ LET s0 == [St EXCEPT !.intervals = (@ \ {t}) \cup {[t EXCEPT !.next = now + t.period]},
                            !.ticksFired = @ + 1,
                            !.ticksSkipped = IF checkInProgressRef THEN @ + 1 ELSE @]
           s1 == PerformHealthCheck(s0)
       IN /\ s1.started <= MaxCalls
          /\ Commit(Microtasks(s1))

(***************************************************************************)
(* Tasks of a checkHealth invocation: what the network and the timers do    *)
(***************************************************************************)
Step(id, c) == Commit(Microtasks([St EXCEPT !.calls[id] = c]))

Aborted(id) == id \in abortedSignals

\* fetch() rejects (no connection), or resolves with a status that is not 2xx.
FetchFails(id, raw) ==
    /\ id \in DOMAIN calls
    /\ calls[id].pc = "fetch"
    /\ raw \in RawErrors \ {"AbortError", ErrInvalidFormat}
    /\ Step(id, FetchFailed(calls[id], raw, Aborted(id), now))

\* fetch() resolves with a 2xx status.
FetchSucceeds(id) ==
    /\ id \in DOMAIN calls
    /\ calls[id].pc = "fetch"
    /\ Step(id, FetchOk(calls[id]))

\* The per-attempt timer fires: controller.abort(), fetch() rejects.
TimeoutFires(id) ==
    /\ id \in DOMAIN calls
    /\ calls[id].pc = "fetch"
    /\ calls[id].timeoutAt = now
    /\ Step(id, FetchFailed(calls[id], "AbortError", Aborted(id), now))

\* response.json() resolves.
JsonResolves(id, data) ==
    /\ id \in DOMAIN calls
    /\ calls[id].pc = "body"
    /\ data \in Bodies(now)
    /\ Step(id, JsonParsed(calls[id], data, Aborted(id), now))

\* response.json() rejects: the body is no JSON.
JsonRejects(id) ==
    /\ id \in DOMAIN calls
    /\ calls[id].pc = "body"
    /\ Step(id, BodyFailed(calls[id], Aborted(id), now))

\* The backoff timer fires.
DelayFires(id) ==
    /\ id \in DOMAIN calls
    /\ calls[id].pc = "delay"
    /\ calls[id].delayAt = now
    /\ Step(id, DelayElapsed(calls[id], Aborted(id), now))

\* A timer that is due fires before the clock moves on.
TimerDue ==
    \/ \E t \in intervals : t.next = now
    \/ \E id \in DOMAIN calls :
          \/ calls[id].pc = "fetch" /\ calls[id].timeoutAt = now
          \/ calls[id].pc = "delay" /\ calls[id].delayAt = now

AdvanceTime ==
    /\ now < MaxTime
    /\ ~TimerDue
    /\ Commit([St EXCEPT !.now = @ + 1])

Ids == 1..(MaxCalls + 1)

CallNext ==
    \/ \E id \in Ids, raw \in RawErrors : FetchFails(id, raw)
    \/ \E id \in Ids : FetchSucceeds(id)
    \/ \E id \in Ids : TimeoutFires(id)
    \/ \E id \in Ids, data \in Bodies(now) : JsonResolves(id, data)
    \/ \E id \in Ids : JsonRejects(id)
    \/ \E id \in Ids : DelayFires(id)
    \/ AdvanceTime

\* The component as Layout renders it: mounted, ticking, unmounted.
Next ==
    \/ \E strict \in BOOLEAN : Mount(strict)
    \/ Unmount
    \/ \E t \in intervals : Tick(t)
    \/ CallNext

Spec == Init /\ [][Next]_vars

\* The same component when the network answers every request, timers fire
\* and time passes: every probe attempt settles.  Nothing obliges the parent
\* to unmount.
Progress ==
    \/ \E strict \in BOOLEAN : Mount(strict)
    \/ \E t \in intervals : Tick(t)
    \/ CallNext

SpecLive == Init /\ [][Next]_vars /\ WF_vars(Progress)

\* The component under a parent that renders it as Layout does, without
\* props, and then re-renders it with props.
InitRerender ==
    /\ lifecycle = "rendered"
    /\ InitWith(Destructure([checkInterval |-> Absent, timeout |-> Absent,
                             healthEndpoint |-> Absent]), << >>)

NextRerender ==
    \/ Next
    \/ \E g \in GivenProps : Rerender(Destructure(g))

SpecRerender == InitRerender /\ [][NextRerender]_vars

(***************************************************************************)
(* The service on its own, called by code that holds the AbortController   *)
(***************************************************************************)
RetryOptions == {0, 1, 2}
DelayOptions == {2}

\* The options a caller may construct the service with.
ServiceOptions ==
    [ timeout    : {Absent} \cup {<<x>> : x \in Timeouts},
      maxRetries : {Absent} \cup {<<n>> : n \in RetryOptions},
      baseDelay  : {Absent} \cup {<<d>> : d \in DelayOptions},
      endpoint   : {Absent} ]

InitService ==
    /\ lifecycle = "service"
    /\ \E o \in ServiceOptions :
          InitWith(Destructure([checkInterval |-> Absent, timeout |-> Absent,
                                healthEndpoint |-> Absent]),
                   <<HealthCheckService(o)>>)

\* new AbortController(), perhaps aborted at once, then checkHealth(signal).
\* This caller awaits each invocation before it makes the next.
CallCheckHealth(preAborted) ==
    /\ lifecycle = "service"
    /\ started < MaxCalls
    /\ DOMAIN calls = {}
    /\ LET id == started + 1
           s0 == IF preAborted THEN Abort(St, id) ELSE St
       IN Commit(Microtasks(CheckHealth(s0, healthServiceRef[1], "caller")))

\* The caller aborts the controller of an invocation that has not settled.
CallerAborts(id) ==
    /\ lifecycle = "service"
    /\ id \in DOMAIN calls
    /\ Commit(Microtasks(Abort(St, id)))

NextService ==
    \/ \E preAborted \in BOOLEAN : CallCheckHealth(preAborted)
    \/ \E id \in Ids : CallerAborts(id)
    \/ CallNext

SpecService == InitService /\ [][NextService]_vars

(***************************************************************************)
(* One service shared by callers that do not wait for each other           *)
(***************************************************************************)
\* The callers; each calls checkHealth once, whenever it likes.
Callers == {"first", "second"}

\* The service of the concurrency test: the defaults, with one retry.
InitConcurrent ==
    /\ lifecycle = "shared"
    /\ InitWith(Destructure([checkInterval |-> Absent, timeout |-> Absent,
                             healthEndpoint |-> Absent]),
                <<HealthCheckService([timeout |-> Absent, maxRetries |-> <<1>>,
                                      baseDelay |-> Absent, endpoint |-> Absent])>>)

\* checkHealth(signal) while earlier invocations are still in flight.
CallConcurrently ==
    /\ lifecycle = "shared"
    /\ started < Cardinality(Callers)
    /\ Commit(Microtasks(CheckHealth(St, healthServiceRef[1], "caller")))

\* A caller aborts the controller of its invocation.
ConcurrentCallerAborts(id) ==
    /\ lifecycle = "shared"
    /\ id \in DOMAIN calls
    /\ Commit(Microtasks(Abort(St, id)))

NextConcurrent ==
    \/ CallConcurrently
    \/ \E id \in Ids : ConcurrentCallerAborts(id)
    \/ CallNext

SpecConcurrent == InitConcurrent /\ [][NextConcurrent]_vars

(***************************************************************************)
(* Properties                                                              *)
(***************************************************************************)
Settled == lastSettled # << >>
Last == lastSettled[1]
InFlight == Cardinality(DOMAIN calls)

\* The errors that say the invocation was cancelled.
AbortErrors == {ErrAborted, ErrDelayAborted}

\* C1: whatever the ticks and the probe completions of one mounted component,
\* at most one checkHealth invocation is started and not yet settled.
\* The sequences are those of Spec, whose props stay as the mount found them;
\* a checkInterval that changes while a check is in flight is the case of C29.
C1_AtMostOneInFlight == InFlight <= 1

\* C1 witness: a tick found the check of the mount still in flight and was
\* skipped, and that invocation is the only one.
C1_Witness == ticksSkipped >= 1 /\ InFlight = 1 /\ started = 1

\* C2: a result that reaches performHealthCheck after the cleanup writes
\* nothing, and once the component is unmounted status and lastChecked stay.
C2_NoUpdateAfterStop ==
    /\ [](Settled /\ Last.owner = "monitor" /\ Last.stopped => ~Last.wrote)
    /\ [][lifecycle = "unmounted" => UNCHANGED <<status, lastChecked, updates>>]_vars

\* C2 witness: the unmount aborted an invocation that was in flight, and its
\* result came back to a stopped component.
C2_Witness ==
    /\ lifecycle = "unmounted" /\ ~strictMode
    /\ Settled /\ Last.owner = "monitor" /\ Last.stopped
    /\ Last.abortedIn \in {"fetch", "body", "delay"}

\* C3 as claimed: an invocation whose signal is aborted while it runs rejects
\* with an abort error.
C3_Claim ==
    Settled /\ Last.abortedIn \in {"fetch", "body", "delay"}
        => Last.result = "rejected" /\ Last.error \in AbortErrors

\* C3, the part about success alone: an invocation whose signal is aborted
\* while it runs never resolves.
C3_ClaimNeverSucceeds ==
    Settled /\ Last.abortedIn \in {"fetch", "body", "delay"} => Last.result = "rejected"

\* C4 as claimed: an invocation that was not cancelled and rejects has made
\* maxRetries + 1 fetch calls and rejects with what its last attempt threw.
C4_Claim ==
    Settled /\ Last.result = "rejected" /\ Last.abortedIn = "none" /\ Last.fetches > 0
        => Last.fetches = Last.svc.maxRetries + 1 /\ Last.error = Last.attemptError

\* C4 with the HTTP errors whose status text holds "aborted" left out.
C4_WithoutAbortedText ==
    Settled /\ Last.result = "rejected" /\ Last.abortedIn = "none" /\ Last.fetches > 0
      /\ Last.error # ErrHttpAbortedText
        => Last.fetches = Last.svc.maxRetries + 1 /\ Last.error = Last.attemptError

C7_Claim == lifecycle = "mounted" => started = 1 + ticksFired - ticksSkipped

\* C7 in a production build, where the effects of the mount run once.
C7_WithoutStrictMode ==
    lifecycle = "mounted" /\ ~strictMode => started = 1 + ticksFired - ticksSkipped

\* C8: once the component is unmounted no interval timer is armed and no
\* checkHealth invocation is started any more.
C8_NoCycleAfterStop ==
    /\ [](lifecycle = "unmounted" => intervals = {} /\ intervalRef = 0)
    /\ [][lifecycle = "unmounted" => started' = started]_vars

\* C8 witness: the component was unmounted after its first tick, and the time
\* of the second tick has come without the tick.
C8_Witness ==
    /\ lifecycle = "unmounted" /\ ~strictMode
    /\ ticksFired = 1 /\ started = 2
    /\ now >= 2 * props.checkInterval

\* C9 as claimed: no invocation is outstanding on a signal that was never
\* aborted once the component is unmounted.
C9_Claim == lifecycle = "unmounted" => \A id \in DOMAIN calls : id \in abortedSignals

\* C10 as claimed: a check that completes on a running component sets status
\* to healthy when checkHealth resolved and to unhealthy when it rejected, and
\* lastChecked to the time of the completion.
C10_Claim ==
    Settled /\ Last.owner = "monitor" /\ ~Last.stopped
        => /\ status = (IF Last.result = "resolved" THEN "healthy" ELSE "unhealthy")
           /\ lastChecked = <<Last.settledAt>>

\* C10 amended: a check that completes on a running component sets status to
\* healthy when checkHealth resolved with status "ok", to unhealthy when it
\* resolved with another status or rejected, and lastChecked to the time of
\* the completion.
C10_PhaseFollowsOutcome ==
    Settled /\ Last.owner = "monitor" /\ ~Last.stopped
        => /\ status = (IF Last.result = "resolved" /\ Last.data.status = "ok"
                        THEN "healthy" ELSE "unhealthy")
           /\ lastChecked = <<Last.settledAt>>
           /\ Last.wrote

\* C10 witness: checkHealth resolved with status "error" after time had passed.
C10_Witness ==
    /\ Settled /\ Last.owner = "monitor" /\ ~Last.stopped
    /\ Last.result = "resolved" /\ Last.data.status = "error"
    /\ Last.settledAt >= 1 /\ status = "unhealthy"

\* C11: an invocation whose signal is aborted before the call rejects with the
\* aborted error in the calling task; it has made no fetch call and set no
\* timer, and it never stays in flight.
C11_PreAbortedRejects ==
    /\ \A id \in DOMAIN calls : calls[id].abortedIn # "before"
    /\ Settled /\ Last.abortedIn = "before"
          => /\ Last.result = "rejected" /\ Last.error = ErrAborted
             /\ Last.fetches = 0 /\ Last.waits = 0
             /\ Last.settledAt = Last.calledAt

\* C11 witness: a caller passed an aborted signal, some time after an earlier
\* invocation.
C11_Witness == Settled /\ Last.abortedIn = "before" /\ Last.id >= 2 /\ now >= 1

\* C12 as claimed: an invocation that nobody cancelled rejects only after its
\* last allowed attempt.
C12_Claim ==
    Settled /\ Last.result = "rejected" /\ Last.abortedIn = "none"
        => Last.attempt = Last.svc.maxRetries

\* 2^a and 2^a - 1 for the attempts a = 0..3, written out.
TwoToThe == <<1, 2, 4, 8>>
WaitsBefore == <<0, 1, 3, 7>>

\* The invocation id starts a backoff wait in this step.
StartsWait(id) ==
    /\ id \in DOMAIN calls /\ id \in DOMAIN calls'
    /\ calls[id].pc # "delay" /\ calls'[id].pc = "delay"

\* The invocation id ends a backoff wait with a new attempt in this step.
EndsWait(id) ==
    /\ id \in DOMAIN calls /\ id \in DOMAIN calls'
    /\ calls[id].pc = "delay" /\ calls'[id].pc = "fetch"

\* C13: the wait that starts after failed attempt a ends baseDelay * 2^a later
\* with attempt a + 1, no wait starts after the last allowed attempt, and
\* when every attempt fails at once attempt a is issued baseDelay * (2^a - 1)
\* after the call.
C13_BackoffDoubles ==
    /\ [](\A id \in DOMAIN calls :
            calls[id].owner = "caller" /\ calls[id].pc = "fetch" /\ calls[id].instant
              => calls[id].issuedAt = calls[id].calledAt
                     + calls[id].svc.baseDelay * WaitsBefore[calls[id].attempt + 1])
    /\ [][\A id \in Ids :
            /\ StartsWait(id) =>
                  /\ calls[id].attempt < calls[id].svc.maxRetries
                  /\ calls'[id].attempt = calls[id].attempt
                  /\ calls'[id].delayAt = now'
                         + calls[id].svc.baseDelay * TwoToThe[calls[id].attempt + 1]
            /\ EndsWait(id) =>
                  /\ now' = calls[id].delayAt
                  /\ calls'[id].attempt = calls[id].attempt + 1]_vars

\* C13 witness: base delay 1, three retries, every attempt failed at once: the
\* fourth fetch is made 7 after the call.
C13_Witness ==
    \E id \in DOMAIN calls :
        /\ calls[id].owner = "caller" /\ calls[id].pc = "fetch" /\ calls[id].instant
        /\ calls[id].svc.baseDelay = DefaultBaseDelay
        /\ calls[id].attempt = 3 /\ calls[id].calledAt = 0 /\ now = 7

\* C14: an invocation that resolves with a body the server sent resolves with
\* exactly that body, after one fetch call per attempt and one wait per failed
\* attempt, and is gone: it makes no further fetch call.
C14_SuccessAfterRetries ==
    Settled /\ Last.result = "resolved" /\ ~Last.bodyFailed
        => /\ Last.data = Last.body
           /\ Last.fetches = Last.attempt + 1
           /\ Last.waits = Last.attempt
           /\ Last.id \notin DOMAIN calls

\* C14 witness: two attempts failed, the third brought a body with status
\* "error".
C14_Witness ==
    /\ Settled /\ Last.result = "resolved" /\ ~Last.bodyFailed
    /\ Last.attempt = 2 /\ Last.abortedIn = "none" /\ Last.data.status = "error"

C15_WithoutStrictMode ==
    /\ Settled /\ Last.owner = "monitor" /\ ~Last.stopped => Last.wrote
    /\ lifecycle = "mounted" /\ ~strictMode => updates = 2 * started - InFlight
    /\ lifecycle = "mounted" /\ ~strictMode /\ InFlight = 0 /\ ticksSkipped = 0
          => started = ticksFired + 1 /\ updates = 2 * (ticksFired + 1)

\* C16 as claimed: on a mounted component every tick that finds no cycle in
\* flight starts a checkHealth invocation, whatever the earlier cycles ended
\* with.
C16_Claim ==
    [][lifecycle = "mounted" /\ ticksFired' = ticksFired + 1 /\ ~checkInProgressRef
          => started' = started + 1]_vars

\* C16 in a production build, where the effects of the mount run once.
C16_WithoutStrictMode ==
    [][lifecycle = "mounted" /\ ~strictMode
          /\ ticksFired' = ticksFired + 1 /\ ~checkInProgressRef
          => started' = started + 1]_vars

\* C17: a checkHealth invocation starts only in the task of the mount or of a
\* tick, one per task, and never in the task of a tick that was skipped: the
\* end of a cycle starts nothing.
C17_SkippedTickIsDropped ==
    [][/\ started' # started =>
             /\ started' = started + 1
             /\ lifecycle = "rendered" \/ ticksFired' = ticksFired + 1
       /\ ticksSkipped' # ticksSkipped => started' = started]_vars

\* C17 witness: the cycle of the mount ended on a running component after a
\* tick had been skipped, and nothing is in flight.
C17_Witness ==
    /\ lifecycle = "mounted" /\ ticksSkipped >= 1 /\ started = 1
    /\ Settled /\ Last.owner = "monitor" /\ ~Last.stopped /\ Last.wrote
    /\ InFlight = 0 /\ ~checkInProgressRef

\* C18 as claimed: an invocation whose signal is aborted while fetch() is
\* pending rejects with the aborted error, and one whose attempts the timer
\* ended rejects with the timeout error only after its last allowed attempt.
C18_Claim ==
    /\ Settled /\ Last.abortedIn = "fetch"
          => Last.result = "rejected" /\ Last.error = ErrAborted
    /\ Settled /\ Last.abortedIn = "none" /\ Last.error = ErrTimeout
          => Last.result = "rejected" /\ Last.fetches = Last.svc.maxRetries + 1

\* C18, the part about the timer alone.
C18_TimeoutIsRetried ==
    Settled /\ Last.abortedIn = "none" /\ Last.error = ErrTimeout
        => Last.result = "rejected" /\ Last.fetches = Last.svc.maxRetries + 1

\* C19 as claimed: no attempt is under way, waiting for fetch() or for the
\* body, later than timeout after it was issued.
C19_Claim ==
    \A id \in DOMAIN calls :
        calls[id].owner = "caller" /\ calls[id].pc \in {"fetch", "body"}
            => now <= calls[id].issuedAt + calls[id].svc.timeout

\* C19, for the attempts that wait for fetch() alone.
C19_FetchIsBounded ==
    \A id \in DOMAIN calls :
        calls[id].owner = "caller" /\ calls[id].pc = "fetch"
            => now <= calls[id].issuedAt + calls[id].svc.timeout

\* C20: on an unmounted component either cleanup, run once more, changes
\* nothing; the component stays unmounted with mountedRef false, no timer, no
\* controller and no flag, and no task changes what it shows or starts a
\* check.
C20_StoppedIsAbsorbing ==
    /\ [](lifecycle = "unmounted" =>
            /\ ~mountedRef /\ intervals = {} /\ intervalRef = 0
            /\ currentRequestRef = 0 /\ ~checkInProgressRef
            /\ ServiceCleanup(St) = St
            /\ PollingCleanup(St) = St)
    /\ [][lifecycle = "unmounted" =>
            /\ lifecycle' = "unmounted"
            /\ UNCHANGED <<mountedRef, intervals, intervalRef, currentRequestRef,
                           checkInProgressRef, status, lastChecked, updates,
                           started, healthServiceRef>>]_vars

\* C20 witness: a component unmounted in the middle of a cycle, after the
\* aborted invocation has come back and time has passed.
C20_Witness ==
    /\ lifecycle = "unmounted" /\ ~strictMode
    /\ status = "checking" /\ started >= 2 /\ InFlight = 0
    /\ ~Settled /\ now >= 3

\* C21 as claimed: an invocation whose result is written to status and
\* lastChecked is the one started last: no cycle was started after it.
C21_Claim == Settled /\ Last.owner = "monitor" /\ Last.wrote => Last.id = started

\* C22: before the effects run status is "checking" and lastChecked null; a
\* terminal status comes with a lastChecked; and lastChecked changes only in
\* the task in which an invocation settles and its result is written, to the
\* time of that task.
C22_LastCheckedIsCompletion ==
    /\ [](lifecycle = "rendered" => status = "checking" /\ lastChecked = << >>)
    /\ [](status \in {"healthy", "unhealthy"} => lastChecked # << >>)
    /\ [][lastChecked' # lastChecked =>
            /\ Settled' /\ Last'.wrote
            /\ lastChecked' = <<now'>>]_vars

\* C22 witness: a second cycle is in flight, status is "checking" again, and
\* lastChecked is the time the first cycle ended.
C22_Witness ==
    /\ lifecycle = "mounted" /\ status = "checking" /\ started = 2 /\ InFlight = 1
    /\ lastChecked # << >> /\ lastChecked[1] < now

\* C23 as claimed: the service holds every supplied option as it was given,
\* and a service given maxRetries 0 that rejects uncancelled has made one
\* fetch call.
C23_Claim ==
    /\ lifecycle = "service" =>
          LET svc == healthServiceRef[1] IN
          /\ svc.given.timeout # Absent => svc.timeout = svc.given.timeout[1]
          /\ svc.given.maxRetries # Absent => svc.maxRetries = svc.given.maxRetries[1]
          /\ svc.given.baseDelay # Absent => svc.baseDelay = svc.given.baseDelay[1]
    /\ Settled /\ Last.svc.given.maxRetries = <<0>>
         /\ Last.result = "rejected" /\ Last.abortedIn = "none"
          => Last.fetches = 1

\* C23, for the options that are not supplied and those supplied with a
\* positive value.
C23_DefaultsAndPositives ==
    lifecycle = "service" =>
        LET svc == healthServiceRef[1]
            Held(opt, field, default) ==
                /\ opt = Absent => field = default
                /\ opt # Absent /\ opt[1] > 0 => field = opt[1]
        IN /\ Held(svc.given.timeout, svc.timeout, DefaultTimeout)
           /\ Held(svc.given.maxRetries, svc.maxRetries, DefaultMaxRetries)
           /\ Held(svc.given.baseDelay, svc.baseDelay, DefaultBaseDelay)
           /\ svc.given.endpoint = Absent => svc.endpoint = DefaultEndpoint

\* The invocations that this step changed, settled or started.
Touched ==
    {id \in DOMAIN calls \cup DOMAIN calls' :
        \/ id \notin DOMAIN calls
        \/ id \notin DOMAIN calls'
        \/ calls'[id] # calls[id]}

\* C24: no step of checkHealth changes the service object, and a step changes
\* one invocation at most: what the network, a timer or a caller's abort does
\* to one invocation leaves every other invocation as it was, and the
\* invocation that settles ends with what its own last attempt produced.
C24_InvocationsAreIndependent ==
    /\ [][/\ healthServiceRef' = healthServiceRef
          /\ Cardinality(Touched) <= 1
          /\ \A id \in Touched : id \in DOMAIN calls /\ id \in DOMAIN calls'
                => calls'[id].svc = calls[id].svc]_vars
    /\ [](Settled /\ Last.result = "rejected" /\ Last.fetches > 0
             => Last.error = Last.attemptError \/ Last.error = ErrDelayAborted)
    /\ [](Settled /\ Last.result = "resolved" /\ ~Last.bodyFailed
             => Last.data = Last.body)

\* C24 witness: of two invocations that ran side by side one was aborted, and
\* the other has gone on to its retry.
C24_Witness ==
    /\ lifecycle = "shared" /\ Settled /\ Last.abortedIn = "fetch"
    /\ \E id \in DOMAIN calls :
          /\ id # Last.id /\ calls[id].calledAt <= Last.calledAt
          /\ calls[id].abortedIn = "none" /\ calls[id].pc = "delay"

\* The effects of the component have been torn down and run again.
EffectsReran == strictMode \/ rerenders > 0

\* C25 as claimed: on a mounted component whose effects have been torn down
\* and run again, a tick that finds no cycle in flight starts an invocation,
\* and an invocation that settles uncancelled has its result written.
C25_Claim ==
    [][lifecycle = "mounted" /\ lifecycle' = "mounted" /\ EffectsReran =>
          /\ ticksFired' = ticksFired + 1 /\ ~checkInProgressRef
                => started' = started + 1
          /\ Settled' /\ Last'.owner = "monitor" /\ Last'.abortedIn = "none"
                => Last'.wrote]_vars

\* C25, for the re-renders that change checkInterval alone in a production
\* build: the ticks go on starting invocations.
C25_IntervalChangeKeepsTicking ==
    [][lifecycle = "mounted" /\ lifecycle' = "mounted" /\ ~strictMode
          /\ rerenders > 0 /\ mountedRef
          /\ ticksFired' = ticksFired + 1 /\ ~checkInProgressRef
          => started' = started + 1]_vars

\* C28: between the tasks of the component the flag is set exactly when a
\* controller is stored, the stored controller is that of the invocation
\* started last, and no cycle has found a leftover controller to abort.
C28_FlagAndControllerAgree ==
    /\ checkInProgressRef <=> currentRequestRef # 0
    /\ currentRequestRef # 0 => currentRequestRef = started
    /\ earlyAborts = 0

\* C28 witness: a cycle is in flight on a re-rendered component after an
\* earlier cycle has ended.
C28_Witness ==
    /\ lifecycle = "mounted" /\ rerenders = 1
    /\ checkInProgressRef /\ currentRequestRef = 3 /\ 3 \in DOMAIN calls

\* C29 as claimed: when an invocation settles after a newer one was started,
\* its result is not written, and the newer invocation, if still in flight,
\* keeps the flag and its controller.
C29_Claim ==
    Settled /\ Last.owner = "monitor" /\ Last.id < started /\ lifecycle = "mounted"
        => /\ ~Last.wrote
           /\ started \in DOMAIN calls /\ mountedRef
                 => checkInProgressRef /\ currentRequestRef = started

\* The caller aborts the signal of invocation id in this step.
AbortsNow(id) == id \in DOMAIN calls /\ id \notin abortedSignals /\ id \in abortedSignals'

C27_NoTimerLeaks ==
    /\ Settled => Last.timeoutAt = 0 /\ Last.delayAt = 0
    /\ \A id \in DOMAIN calls :
          /\ ~(calls[id].timeoutAt # 0 /\ calls[id].delayAt # 0)
          /\ calls[id].pc = "fetch" => calls[id].timeoutAt >= now
          /\ calls[id].pc = "delay" => calls[id].delayAt >= now
          /\ calls[id].pc = "body" => calls[id].timeoutAt = 0 /\ calls[id].delayAt = 0

\* C27 witness: an invocation resolved on its second attempt, after a timer
\* for the first attempt, one for the wait and one for the second attempt.
C27_Witness ==
    /\ Settled /\ Last.owner = "caller" /\ Last.result = "resolved"
    /\ Last.fetches = 2 /\ Last.waits = 1 /\ Last.abortedIn = "none"

\* An invocation or the polling waits for a timer that the clock of the model
\* never reaches.
BeyondHorizon ==
    \/ \E id \in DOMAIN calls :
        \/ calls[id].pc = "delay" /\ calls[id].delayAt > MaxTime
        \/ calls[id].pc = "fetch" /\ calls[id].timeoutAt > MaxTime /\ now = MaxTime
    \/ \E t \in intervals : t.period > MaxTime

\* C30 as claimed: when every attempt settles, a mounted component that shows
\* "checking" comes to show "healthy" or "unhealthy", unless it is unmounted
\* first.
C30_Claim ==
    (lifecycle = "mounted" /\ status = "checking")
        ~> (status \in {"healthy", "unhealthy"} \/ lifecycle = "unmounted" \/ BeyondHorizon)

\* C30 in a production build, where the effects of the mount run once.
C30_WithoutStrictMode ==
    (lifecycle = "mounted" /\ status = "checking" /\ ~strictMode)
        ~> (status \in {"healthy", "unhealthy"} \/ lifecycle = "unmounted" \/ BeyondHorizon)

====
